---- MODULE Spec2Model ----
(***************************************************************************)
(* A model of reef's byte scanner (src/lexer.rs) and of its environment    *)
(* diff (src/env_diff.rs).  Text is a sequence of byte values; the cursor  *)
(* `pos` is 0-based as in the source, so the byte at the cursor is         *)
(* src[pos + 1].                                                           *)
(***************************************************************************)
EXTENDS Integers, Sequences, FiniteSets, TLC

\* ---------------------------------------------------------------- bounds
MaxLen == 3      \* longest input buffer, in bytes
MaxOver == 1     \* how far past the end of the buffer the cursor is followed
MaxArg == 1      \* largest n of bump_n(n) and offset of peek_at(offset)

\* ----------------------------------------------------------------- bytes
NUL == 0
TAB == 9
NL == 10
SPACE == 32
HASH == 35
AMP == 38
SQUOTE == 39
LPAREN == 40
RPAREN == 41
SEMI == 59
LT == 60
GT == 62
UNDERSCORE == 95
PIPE == 124

\* u8::is_ascii_alphabetic / is_ascii_digit / is_ascii_alphanumeric
is_ascii_alphabetic(b) == (b >= 65 /\ b <= 90) \/ (b >= 97 /\ b <= 122)
is_ascii_digit(b) == b >= 48 /\ b <= 57
is_ascii_alphanumeric(b) == is_ascii_alphabetic(b) \/ is_ascii_digit(b)

\* Shell metacharacters.
is_meta(b) == b \in {SPACE, TAB, NL, SEMI, AMP, PIPE, LPAREN, RPAREN, LT, GT, NUL}

\* ------------------------------------------------------- input buffers
\* Lexer::new takes a &str: any valid UTF-8 text, NUL included.  The inputs
\* are the texts of at most MaxLen bytes over one of these byte classes.
\* 105 is 'i', 102 'f', 49 '1', 92 a backslash; 195 169 is the two-byte
\* encoding of U+00E9.
ByteClasses ==
    { {105, UNDERSCORE, 49, SPACE},
      {SPACE, TAB, NL, HASH},
      {SQUOTE, 92, 195, 169},
      {105, 102, SPACE, NUL} }

RECURSIVE SeqsUpTo(_, _)
SeqsUpTo(S, n) ==
    IF n = 0 THEN {<<>>}
    ELSE LET shorter == SeqsUpTo(S, n - 1)
         IN  shorter \cup {Append(s, b) : s \in shorter, b \in S}

\* str::is_char_boundary
is_char_boundary(s, i) ==
    IF i = 0 THEN TRUE
    ELSE IF i >= Len(s) THEN i = Len(s)
    ELSE ~(s[i + 1] >= 128 /\ s[i + 1] <= 191)

\* A byte sequence that is the UTF-8 encoding of some text of one- and
\* two-byte characters: what a &str of these bytes can hold.
ValidUtf8(s) ==
    \A i \in 1..Len(s) :
        \/ s[i] < 128
        \/ s[i] \in 194..223 /\ i < Len(s) /\ s[i + 1] \in 128..191
        \/ s[i] \in 128..191 /\ i > 1 /\ s[i - 1] \in 194..223

Inputs == {s \in UNION {SeqsUpTo(C, MaxLen) : C \in ByteClasses} : ValidUtf8(s)}

\* ------------------------------------------------------------- state
VARIABLES
    src, pos, last, panicked,           \* the scanner and its last call
    memo,                               \* a saved cursor and a call first run from it
    before, after, commands, envpc,     \* EnvSnapshot::diff's inputs and output
    fcall,                              \* the last call of a free function
    run                                 \* a run of bash_exec / bash_exec_env_diff

lexVars == <<src, pos, last, panicked, memo>>

envVars == <<before, after, commands, envpc>>

auxVars == <<fcall, run>>

vars == <<src, pos, last, panicked, memo, before, after, commands, envpc, fcall, run>>

\* No free function has been called, and nothing has been run.
NoFCall == [fn |-> "none", input |-> <<>>, output |-> <<>>, panicked |-> FALSE]

NoRun == [pc |-> "none"]

\* The record of the last call: its name, argument, the cursor before it,
\* and what it returned.
Call(op, arg, pre, b, n, s, err) ==
    [op |-> op, arg |-> arg, pre |-> pre, retB |-> b, retN |-> n, retS |-> s,
     err |-> err]

NoCall == Call("new", <<>>, 0, FALSE, 0, <<>>, "")

\* What a caller that backtracks keeps: the cursor it saved with pos(), one
\* call it then ran from that cursor with what the call did, and whether it
\* has since gone back with set_pos.
NoMemo ==
    [armed |-> FALSE, saved |-> 0, has |-> FALSE, run |-> NoCall, post |-> 0,
     panicked |-> FALSE, restored |-> FALSE]

\* The caller's notes after `call` moved the cursor to p: it may note the
\* first call it runs from the saved cursor, and notes its going back.
MemoAfter(call, p, pan) ==
    {IF memo.has /\ call.op = "set_pos" /\ p = memo.saved
     THEN [memo EXCEPT !.restored = TRUE] ELSE memo}
    \cup
    (IF memo.armed /\ ~memo.has /\ call.pre = memo.saved /\ call.op # "set_pos"
     THEN {[memo EXCEPT !.has = TRUE, !.run = call, !.post = p, !.panicked = pan]}
     ELSE {})

\* ----------------------------------------------------- pure lookahead
is_eof_at(s, p) == p >= Len(s)

peek_val(s, p) == IF p < Len(s) THEN s[p + 1] ELSE 0

peek_at_val(s, p, offset) ==
    LET i == p + offset IN IF i < Len(s) THEN s[i + 1] ELSE 0

\* &input[a..b]: a str range index panics unless a <= b <= len and both ends
\* are character boundaries.
slice_ok(s, a, b) ==
    a <= b /\ b <= Len(s) /\ is_char_boundary(s, a) /\ is_char_boundary(s, b)

slice_val(s, a, b) == SubSeq(s, a + 1, b)

\* ------------------------------------------------------ loops, as code
\* A variant of skip_blanks that also steps over newlines.
RECURSIVE skip_blanks_end_nl(_, _)
skip_blanks_end_nl(s, p) ==
    IF p < Len(s) /\ s[p + 1] \in {SPACE, TAB, NL} THEN skip_blanks_end_nl(s, p + 1)
    ELSE p

\* skip_blanks: while pos < len, step over b' ' | b'\t'.
RECURSIVE skip_blanks_end(_, _)
skip_blanks_end(s, p) ==
    IF p < Len(s) /\ s[p + 1] \in {SPACE, TAB} THEN skip_blanks_end(s, p + 1) ELSE p

\* A variant of skip_comment's loop that consumes the newline too.
RECURSIVE skip_past_newline(_, _)
skip_past_newline(s, p) ==
    IF p >= Len(s) THEN p
    ELSE IF s[p + 1] = NL THEN p + 1
    ELSE skip_past_newline(s, p + 1)

\* skip_comment's inner loop: while pos < len and src[pos] != b'\n'.
RECURSIVE skip_to_newline(_, _)
skip_to_newline(s, p) ==
    IF p < Len(s) /\ s[p + 1] # NL THEN skip_to_newline(s, p + 1) ELSE p

skip_comment_end(s, p) ==
    IF peek_val(s, p) = HASH THEN skip_to_newline(s, p) ELSE p

\* read_name's inner loop over [a-zA-Z_0-9].
RECURSIVE name_tail_end(_, _)
name_tail_end(s, p) ==
    IF p < Len(s) /\ (is_ascii_alphanumeric(s[p + 1]) \/ s[p + 1] = UNDERSCORE)
    THEN name_tail_end(s, p + 1) ELSE p

read_name_end(s, p) ==
    IF p < Len(s) /\ (is_ascii_alphabetic(s[p + 1]) \/ s[p + 1] = UNDERSCORE)
    THEN name_tail_end(s, p + 1) ELSE p

RECURSIVE read_number_end(_, _)
read_number_end(s, p) ==
    IF p < Len(s) /\ is_ascii_digit(s[p + 1]) THEN read_number_end(s, p + 1) ELSE p

\* A variant of scan_squote's loop in which a backslash escapes the next byte.
RECURSIVE squote_at_escaped(_, _)
squote_at_escaped(s, p) ==
    IF p >= Len(s) THEN p
    ELSE IF s[p + 1] = 92 THEN (IF p + 2 <= Len(s) THEN squote_at_escaped(s, p + 2)
                                ELSE Len(s))
    ELSE IF s[p + 1] = SQUOTE THEN p
    ELSE squote_at_escaped(s, p + 1)

\* scan_squote's loop: the index of the first b'\'' at or after p, or the
\* buffer length (or p itself, past the end) when there is none.
RECURSIVE squote_at(_, _)
squote_at(s, p) ==
    IF p < Len(s) /\ s[p + 1] # SQUOTE THEN squote_at(s, p + 1) ELSE p

\* A variant of at_keyword without the word-boundary test.
at_keyword_no_boundary(s, p, kw) ==
    LET end == p + Len(kw) IN
    IF end > Len(s) THEN FALSE ELSE SubSeq(s, p + 1, end) = kw

\* at_keyword, a &self method.
at_keyword_val(s, p, kw) ==
    LET end == p + Len(kw) IN
    IF end > Len(s) THEN FALSE
    ELSE IF SubSeq(s, p + 1, end) # kw THEN FALSE
    ELSE IF Len(kw) = 1 /\ is_meta(kw[1]) THEN TRUE
    ELSE end >= Len(s) \/ is_meta(s[end + 1])

at_any_keyword_val(s, p, kws) ==
    \E i \in 1..Len(kws) : at_keyword_val(s, p, kws[i])


\* ===================================================== src/env_diff.rs
MaxVars == 2     \* most variables in one snapshot

\* Sorted by ASCII byte order, for the binary search of should_skip_var.
SKIP_VARS ==
    <<
       <<66, 65, 83, 72>>,                                                     \* BASH
       <<66, 65, 83, 72, 79, 80, 84, 83>>,                                     \* BASHOPTS
       <<66, 65, 83, 72, 80, 73, 68>>,                                         \* BASHPID
       <<66, 65, 83, 72, 95, 65, 76, 73, 65, 83, 69, 83>>,                     \* BASH_ALIASES
       <<66, 65, 83, 72, 95, 65, 82, 71, 67>>,                                 \* BASH_ARGC
       <<66, 65, 83, 72, 95, 65, 82, 71, 86>>,                                 \* BASH_ARGV
       <<66, 65, 83, 72, 95, 67, 77, 68, 83>>,                                 \* BASH_CMDS
       <<66, 65, 83, 72, 95, 67, 79, 77, 77, 65, 78, 68>>,                     \* BASH_COMMAND
       <<66, 65, 83, 72, 95, 69, 88, 69, 67, 85, 84, 73, 79, 78, 95, 83, 84, 82, 73, 78, 71>>, \* BASH_EXECUTION_STRING
       <<66, 65, 83, 72, 95, 76, 73, 78, 69, 78, 79>>,                         \* BASH_LINENO
       <<66, 65, 83, 72, 95, 76, 79, 65, 68, 65, 66, 76, 69, 83, 95, 80, 65, 84, 72>>, \* BASH_LOADABLES_PATH
       <<66, 65, 83, 72, 95, 82, 69, 77, 65, 84, 67, 72>>,                     \* BASH_REMATCH
       <<66, 65, 83, 72, 95, 83, 79, 85, 82, 67, 69>>,                         \* BASH_SOURCE
       <<66, 65, 83, 72, 95, 83, 85, 66, 83, 72, 69, 76, 76>>,                 \* BASH_SUBSHELL
       <<66, 65, 83, 72, 95, 86, 69, 82, 83, 73, 78, 70, 79>>,                 \* BASH_VERSINFO
       <<66, 65, 83, 72, 95, 86, 69, 82, 83, 73, 79, 78>>,                     \* BASH_VERSION
       <<67, 79, 76, 85, 77, 78, 83>>,                                         \* COLUMNS
       <<67, 79, 77, 80, 95, 87, 79, 82, 68, 66, 82, 69, 65, 75, 83>>,         \* COMP_WORDBREAKS
       <<68, 73, 82, 83, 84, 65, 67, 75>>,                                     \* DIRSTACK
       <<69, 85, 73, 68>>,                                                     \* EUID
       <<70, 85, 78, 67, 78, 65, 77, 69>>,                                     \* FUNCNAME
       <<71, 82, 79, 85, 80, 83>>,                                             \* GROUPS
       <<72, 73, 83, 84, 67, 77, 68>>,                                         \* HISTCMD
       <<72, 73, 83, 84, 70, 73, 76, 69>>,                                     \* HISTFILE
       <<72, 79, 83, 84, 78, 65, 77, 69>>,                                     \* HOSTNAME
       <<72, 79, 83, 84, 84, 89, 80, 69>>,                                     \* HOSTTYPE
       <<73, 70, 83>>,                                                         \* IFS
       <<76, 73, 78, 69, 83>>,                                                 \* LINES
       <<77, 65, 67, 72, 84, 89, 80, 69>>,                                     \* MACHTYPE
       <<77, 65, 73, 76, 67, 72, 69, 67, 75>>,                                 \* MAILCHECK
       <<79, 76, 68, 80, 87, 68>>,                                             \* OLDPWD
       <<79, 80, 84, 69, 82, 82>>,                                             \* OPTERR
       <<79, 80, 84, 73, 78, 68>>,                                             \* OPTIND
       <<79, 83, 84, 89, 80, 69>>,                                             \* OSTYPE
       <<80, 73, 80, 69, 83, 84, 65, 84, 85, 83>>,                             \* PIPESTATUS
       <<80, 80, 73, 68>>,                                                     \* PPID
       <<80, 83, 49>>,                                                         \* PS1
       <<80, 83, 50>>,                                                         \* PS2
       <<80, 83, 52>>,                                                         \* PS4
       <<80, 87, 68>>,                                                         \* PWD
       <<82, 65, 78, 68, 79, 77>>,                                             \* RANDOM
       <<83, 69, 67, 79, 78, 68, 83>>,                                         \* SECONDS
       <<83, 72, 69, 76, 76>>,                                                 \* SHELL
       <<83, 72, 69, 76, 76, 79, 80, 84, 83>>,                                 \* SHELLOPTS
       <<83, 72, 76, 86, 76>>,                                                 \* SHLVL
       <<85, 73, 68>>,                                                         \* UID
       <<95>>                                                                  \* _
    >>

\* &str's Ord: byte-wise lexicographic, a proper prefix first.  -1, 0 or 1.
RECURSIVE str_cmp(_, _)
str_cmp(a, b) ==
    IF a = <<>> THEN (IF b = <<>> THEN 0 ELSE -1)
    ELSE IF b = <<>> THEN 1
    ELSE IF a[1] < b[1] THEN -1
    ELSE IF a[1] > b[1] THEN 1
    ELSE str_cmp(Tail(a), Tail(b))

\* slice::binary_search over list[lo..hi] (0-based, hi excluded): is_ok().
RECURSIVE binary_search(_, _, _, _)
binary_search(list, x, lo, hi) ==
    IF lo >= hi THEN FALSE
    ELSE LET mid == lo + ((hi - lo) \div 2)
             c == str_cmp(list[mid + 1], x)
         IN  IF c = 0 THEN TRUE
             ELSE IF c < 0 THEN binary_search(list, x, mid + 1, hi)
             ELSE binary_search(list, x, lo, mid)

\* A variant whose search window stops one short of the end of the list.
should_skip_var_short(name) == binary_search(SKIP_VARS, name, 0, Len(SKIP_VARS) - 1)

should_skip_var(name) == binary_search(SKIP_VARS, name, 0, Len(SKIP_VARS))

\* String::push(b as char): a byte below 128 is pushed as itself, a byte from
\* 128 up becomes the character U+0080..U+00FF, two bytes of UTF-8.
push_byte_as_char(b) ==
    IF b < 128 THEN <<b>> ELSE <<192 + (b \div 64), 128 + (b % 64)>>

shell_safe(b) ==
    is_ascii_alphanumeric(b) \/ b \in {47, 46, 45, 95, 58, 126, 43, 44}

\* What shell_escape's loop appends for the bytes of s, in order (the text
\* is taken by halves to keep the evaluation shallow on long values).
RECURSIVE quote_body(_)
quote_body(s) ==
    IF s = <<>> THEN <<>>
    ELSE IF Len(s) = 1
         THEN (IF s[1] = SQUOTE THEN <<SQUOTE, 92, SQUOTE, SQUOTE>>
               ELSE push_byte_as_char(s[1]))
    ELSE quote_body(SubSeq(s, 1, Len(s) \div 2))
             \o quote_body(SubSeq(s, (Len(s) \div 2) + 1, Len(s)))

\* shell_escape: the text itself when every byte is safe, else single-quoted.
shell_escape(s) ==
    IF \A i \in 1..Len(s) : shell_safe(s[i]) THEN s
    ELSE <<SQUOTE>> \o quote_body(s) \o <<SQUOTE>>

ends_with(s, suffix) ==
    Len(s) >= Len(suffix) /\ SubSeq(s, Len(s) - Len(suffix) + 1, Len(s)) = suffix

contains_byte(s, b) == \E i \in 1..Len(s) : s[i] = b

\* new_val.split(':') joined by ' ': every part pushed as it is, a space
\* between two parts.
RECURSIVE split_join(_)
split_join(s) ==
    IF s = <<>> THEN <<>>
    ELSE (IF s[1] = 58 THEN <<SPACE>> ELSE <<s[1]>>) \o split_join(Tail(s))

STR_SET_GX == <<115, 101, 116, 32, 45, 103, 120, 32>>    \* "set -gx "
STR_SET_E == <<115, 101, 116, 32, 45, 101, 32>>          \* "set -e "
STR_CD == <<99, 100, 32>>                                \* "cd "
STR_PATH == <<80, 65, 84, 72>>                           \* "PATH"

\* A variant of the set -gx emission without the PATH-like split.
set_command_unsplit(key, new_val) ==
    STR_SET_GX \o key \o <<SPACE>> \o shell_escape(new_val)

set_command(key, new_val) ==
    STR_SET_GX \o key \o <<SPACE>> \o
        (IF ends_with(key, STR_PATH) /\ contains_byte(new_val, 58)
         THEN split_join(new_val)
         ELSE shell_escape(new_val))

\* A variant of the change test that only sees variables absent before.
changed_only_if_new(b, key, new_val) == key \notin DOMAIN b.vars

\* match self.vars.get(key) { Some(old_val) => old_val != new_val, None => true }
changed(b, key, new_val) ==
    IF key \in DOMAIN b.vars THEN b.vars[key] # new_val ELSE TRUE

\* The first loop, over after.vars in the order `keys` the map yields them.
RECURSIVE new_or_changed(_, _, _)
new_or_changed(b, a, keys) ==
    IF keys = <<>> THEN <<>>
    ELSE LET key == keys[1]
             rest == new_or_changed(b, a, Tail(keys))
         IN  IF should_skip_var(key) THEN rest
             ELSE IF changed(b, key, a.vars[key])
                  THEN <<set_command(key, a.vars[key])>> \o rest
                  ELSE rest

\* The second loop, over self.vars.keys().
RECURSIVE removed(_, _, _)
removed(b, a, keys) ==
    IF keys = <<>> THEN <<>>
    ELSE LET key == keys[1]
             rest == removed(b, a, Tail(keys))
         IN  IF should_skip_var(key) THEN rest
             ELSE IF key \notin DOMAIN a.vars THEN <<STR_SET_E \o key>> \o rest
             ELSE rest

changed_directory(b, a) ==
    IF a.cwd # <<>> /\ b.cwd # a.cwd THEN << STR_CD \o shell_escape(a.cwd) >>
    ELSE <<>>

diff_commands(b, a, afterKeys, beforeKeys) ==
    new_or_changed(b, a, afterKeys) \o removed(b, a, beforeKeys)
        \o changed_directory(b, a)

\* The orders in which a HashMap may yield the keys S.
KeyOrders(S) ==
    {f \in [1..Cardinality(S) -> S] : \A i, j \in 1..Cardinality(S) : f[i] = f[j] => i = j}

\* "A", "PATH", "PWD" (deny-listed), "_" (deny-listed).
EnvNames == { <<65>>, STR_PATH, <<80, 87, 68>>, <<95>> }

\* "v" and "a:b c".
EnvValues == { <<118>>, <<97, 58, 98, 32, 99>> }

\* "", "/t" and "/a b".
EnvDirs == { <<>>, <<47, 116>>, <<47, 97, 32, 98>> }

Snapshots ==
    UNION { [vars : [D -> EnvValues], cwd : EnvDirs] :
            D \in {E \in SUBSET EnvNames : Cardinality(E) <= MaxVars} }

EmptySnapshot == [vars |-> <<>>, cwd |-> <<>>]

\* ------------------------------------------------------------ arguments
EatBytes == {NUL, SPACE, SQUOTE, 105}

\* <<>>, "fi", and the lone lead byte of a two-byte character.
EatStrs == { <<>>, <<102, 105>>, <<195>> }

\* <<>>, "i", "fi", "if", " ", "\0".
Keywords == { <<>>, <<105>>, <<102, 105>>, <<105, 102>>, <<SPACE>>, <<NUL>> }

KeywordLists == { <<>>, << <<102, 105>>, <<105, 102>> >>, << <<SPACE>>, <<105>> >> }

Positions == 0..(MaxLen + MaxOver)

InRange(p) == p <= Len(src) + MaxOver

\* ----------------------------------------------------------------- Init
\* Lexer::new(input); no environment diff is in progress.
Init ==
    /\ src \in Inputs
    /\ pos = 0
    /\ last = NoCall
    /\ panicked = FALSE
    /\ memo = NoMemo
    /\ before = EmptySnapshot
    /\ after = EmptySnapshot
    /\ commands = <<>>
    /\ envpc = "idle"
    /\ fcall = NoFCall
    /\ run = NoRun

\* A call that returns: the cursor moves to p and the call is recorded.
Returns(p, call) ==
    /\ pos' = p
    /\ last' = call
    /\ memo' \in MemoAfter(call, p, FALSE)
    /\ UNCHANGED <<src, panicked>>
    /\ UNCHANGED envVars
    /\ UNCHANGED auxVars

\* A call that panics after moving the cursor to p: nothing runs after it.
Panics(p, call) ==
    /\ pos' = p
    /\ last' = call
    /\ panicked' = TRUE
    /\ memo' \in MemoAfter(call, p, TRUE)
    /\ UNCHANGED src
    /\ UNCHANGED envVars
    /\ UNCHANGED auxVars

\* -------------------------------------------------- position / lookahead
get_pos ==
    /\ ~panicked
    /\ Returns(pos, Call("pos", <<>>, pos, FALSE, pos, <<>>, ""))

is_eof ==
    /\ ~panicked
    /\ Returns(pos, Call("is_eof", <<>>, pos, is_eof_at(src, pos), 0, <<>>, ""))

peek ==
    /\ ~panicked
    /\ Returns(pos, Call("peek", <<>>, pos, FALSE, peek_val(src, pos), <<>>, ""))

peek_at(offset) ==
    /\ ~panicked
    /\ Returns(pos, Call("peek_at", <<offset>>, pos, FALSE,
                         peek_at_val(src, pos, offset), <<>>, ""))

slice(start) ==
    /\ ~panicked
    /\ IF slice_ok(src, start, pos)
       THEN Returns(pos, Call("slice", <<start>>, pos, FALSE, 0,
                              slice_val(src, start, pos), ""))
       ELSE Panics(pos, Call("slice", <<start>>, pos, FALSE, 0, <<>>, "panic"))

slice_range(start, end) ==
    /\ ~panicked
    /\ IF start <= end /\ end <= Len(src) /\ slice_ok(src, start, end)
       THEN Returns(pos, Call("slice_range", <<start, end>>, pos, FALSE, 0,
                              slice_val(src, start, end), ""))
       ELSE Panics(pos, Call("slice_range", <<start, end>>, pos, FALSE, 0, <<>>,
                             "panic"))

remaining ==
    /\ ~panicked
    /\ IF slice_ok(src, pos, Len(src))
       THEN Returns(pos, Call("remaining", <<>>, pos, FALSE, 0,
                              slice_val(src, pos, Len(src)), ""))
       ELSE Panics(pos, Call("remaining", <<>>, pos, FALSE, 0, <<>>, "panic"))

\* --------------------------------------------------------------- advance
\* A variant of set_pos that moves the cursor by p instead of to p.
set_pos_relative(p) ==
    /\ ~panicked
    /\ InRange(pos + p)
    /\ Returns(pos + p, Call("set_pos", <<p>>, pos, FALSE, 0, <<>>, ""))

set_pos(p) ==
    /\ ~panicked
    /\ InRange(p)
    /\ Returns(p, Call("set_pos", <<p>>, pos, FALSE, 0, <<>>, ""))

bump ==
    /\ ~panicked
    /\ InRange(pos + 1)
    /\ Returns(pos + 1, Call("bump", <<>>, pos, FALSE, 0, <<>>, ""))

bump_n(n) ==
    /\ ~panicked
    /\ InRange(pos + n)
    /\ Returns(pos + n, Call("bump_n", <<n>>, pos, FALSE, 0, <<>>, ""))

eat(b) ==
    /\ ~panicked
    /\ peek_val(src, pos) = b => InRange(pos + 1)
    /\ IF peek_val(src, pos) = b
       THEN Returns(pos + 1, Call("eat", <<b>>, pos, TRUE, 0, <<>>, ""))
       ELSE Returns(pos, Call("eat", <<b>>, pos, FALSE, 0, <<>>, ""))

eat_str(s) ==
    /\ ~panicked
    /\ IF pos + Len(s) <= Len(src) /\ SubSeq(src, pos + 1, pos + Len(s)) = s
       THEN Returns(pos + Len(s), Call("eat_str", s, pos, TRUE, 0, <<>>, ""))
       ELSE Returns(pos, Call("eat_str", s, pos, FALSE, 0, <<>>, ""))

\* ------------------------------------------------------------------ skip
skip_blanks ==
    /\ ~panicked
    /\ Returns(skip_blanks_end(src, pos),
               Call("skip_blanks", <<>>, pos, FALSE, 0, <<>>, ""))

skip_comment ==
    /\ ~panicked
    /\ Returns(skip_comment_end(src, pos),
               Call("skip_comment", <<>>, pos, FALSE, 0, <<>>, ""))

\* ------------------------------------------------------------------ read
read_name ==
    /\ ~panicked
    /\ LET start == pos
           end == read_name_end(src, pos)
       IN  IF slice_ok(src, start, end)
           THEN Returns(end, Call("read_name", <<>>, start, FALSE, 0,
                                  slice_val(src, start, end), ""))
           ELSE Panics(end, Call("read_name", <<>>, start, FALSE, 0, <<>>, "panic"))

read_number ==
    /\ ~panicked
    /\ LET start == pos
           end == read_number_end(src, pos)
       IN  IF slice_ok(src, start, end)
           THEN Returns(end, Call("read_number", <<>>, start, FALSE, 0,
                                  slice_val(src, start, end), ""))
           ELSE Panics(end, Call("read_number", <<>>, start, FALSE, 0, <<>>,
                                 "panic"))

\* scan_squote: Ok(content) with retB TRUE, or Err(ParseError {pos, msg}) with
\* retB FALSE, retN the error's byte offset and err its message.
scan_squote ==
    /\ ~panicked
    /\ LET start == pos
           q == squote_at(src, pos)
       IN  IF q < Len(src)
           THEN IF slice_ok(src, start, q)
                THEN Returns(q + 1, Call("scan_squote", <<>>, start, TRUE, 0,
                                         slice_val(src, start, q), ""))
                ELSE Panics(q, Call("scan_squote", <<>>, start, FALSE, 0, <<>>,
                                    "panic"))
           ELSE Returns(q, Call("scan_squote", <<>>, start, FALSE, q, <<>>,
                                "unterminated single quote"))

\* --------------------------------------------------------------- keywords
at_keyword(kw) ==
    /\ ~panicked
    /\ Returns(pos, Call("at_keyword", kw, pos, at_keyword_val(src, pos, kw), 0,
                         <<>>, ""))

at_any_keyword(kws) ==
    /\ ~panicked
    /\ Returns(pos, Call("at_any_keyword", kws, pos,
                         at_any_keyword_val(src, pos, kws), 0, <<>>, ""))

\* ------------------------------------------------------------------ Next
Next ==
    \/ get_pos
    \/ is_eof
    \/ peek
    \/ \E k \in 0..MaxArg : peek_at(k)
    \/ \E a \in 0..MaxArg : slice(a)
    \/ \E a \in 0..1, b \in 0..MaxArg : slice_range(a, b)
    \/ remaining
    \/ \E p \in Positions : set_pos(p)
    \/ bump
    \/ \E n \in 0..MaxArg : bump_n(n)
    \/ \E b \in EatBytes : eat(b)
    \/ \E s \in EatStrs : eat_str(s)
    \/ skip_blanks
    \/ skip_comment
    \/ read_name
    \/ read_number
    \/ scan_squote
    \/ \E kw \in Keywords : at_keyword(kw)
    \/ \E kws \in KeywordLists : at_any_keyword(kws)

Spec == Init /\ [][Next]_vars

\* ------------------------------------------- the scanner with backtracking
MaxLenBT == 2    \* longest input buffer of the backtracking runs

\* "i" and " "; "'" and a backslash; "#" and "\n"; "1" and U+00E9.
ByteClassesBT == { {105, SPACE}, {SQUOTE, 92}, {HASH, NL}, {49, 195, 169} }

InputsBT == {s \in UNION {SeqsUpTo(C, MaxLenBT) : C \in ByteClassesBT} : ValidUtf8(s)}

InitBT ==
    /\ src \in InputsBT
    /\ pos = 0
    /\ last = NoCall
    /\ panicked = FALSE
    /\ memo = NoMemo
    /\ before = EmptySnapshot
    /\ after = EmptySnapshot
    /\ commands = <<>>
    /\ envpc = "idle"
    /\ fcall = NoFCall
    /\ run = NoRun

\* let saved = lexer.pos();
save_pos ==
    /\ ~panicked
    /\ pos' = pos
    /\ last' = Call("pos", <<>>, pos, FALSE, pos, <<>>, "")
    /\ memo' = [NoMemo EXCEPT !.armed = TRUE, !.saved = pos]
    /\ UNCHANGED <<src, panicked>>
    /\ UNCHANGED envVars
    /\ UNCHANGED auxVars

NextBT ==
    \/ save_pos
    \/ get_pos
    \/ peek
    \/ remaining
    \/ \E p \in Positions : set_pos(p)
    \/ bump
    \/ bump_n(MaxArg)
    \/ \E b \in {NUL, 105} : eat(b)
    \/ eat_str(<<105>>)
    \/ skip_blanks
    \/ skip_comment
    \/ read_name
    \/ read_number
    \/ scan_squote
    \/ at_keyword(<<105>>)

SpecBT == InitBT /\ [][NextBT]_vars

\* --------------------------------------------- the environment diff alone
InitEnv ==
    /\ src = <<>>
    /\ pos = 0
    /\ last = NoCall
    /\ panicked = FALSE
    /\ memo = NoMemo
    /\ before \in Snapshots
    /\ after \in Snapshots
    /\ commands = <<>>
    /\ envpc = "ready"
    /\ fcall = NoFCall
    /\ run = NoRun

\* before.diff(&after)
diff ==
    /\ envpc = "ready"
    /\ \E afterKeys \in KeyOrders(DOMAIN after.vars) :
       \E beforeKeys \in KeyOrders(DOMAIN before.vars) :
           commands' = diff_commands(before, after, afterKeys, beforeKeys)
    /\ envpc' = "done"
    /\ UNCHANGED <<before, after>>
    /\ UNCHANGED lexVars
    /\ UNCHANGED auxVars

NextEnv == diff

SpecEnv == InitEnv /\ [][NextEnv]_vars

\* =================================================== src/passthrough.rs
\* shell_escape_for_bash's loop: for &b in s.as_bytes().
RECURSIVE bash_quote_body(_)
bash_quote_body(s) ==
    IF s = <<>> THEN <<>>
    ELSE (IF s[1] = SQUOTE THEN <<SQUOTE, 92, SQUOTE, SQUOTE>>
          ELSE push_byte_as_char(s[1])) \o bash_quote_body(Tail(s))

shell_escape_for_bash(s) == <<SQUOTE>> \o bash_quote_body(s) \o <<SQUOTE>>

\* Command texts: "i", "'", " ", a backslash and U+00E9, at most MaxLen bytes.
CommandTexts == {s \in SeqsUpTo({105, SQUOTE, SPACE, 92, 195, 169}, MaxLen) : ValidUtf8(s)}

InitEsc ==
    /\ src = <<>>
    /\ pos = 0
    /\ last = NoCall
    /\ panicked = FALSE
    /\ memo = NoMemo
    /\ before = EmptySnapshot
    /\ after = EmptySnapshot
    /\ commands = <<>>
    /\ envpc = "idle"
    /\ fcall \in {[NoFCall EXCEPT !.input = s] : s \in CommandTexts}
    /\ run = NoRun

\* shell_escape_for_bash(command)
escape_for_bash ==
    /\ fcall.fn = "none"
    /\ fcall' = [fcall EXCEPT !.fn = "shell_escape_for_bash",
                              !.output = shell_escape_for_bash(fcall.input)]
    /\ UNCHANGED <<lexVars, envVars, run>>

NextEsc == escape_for_bash

SpecEsc == InitEsc /\ [][NextEsc]_vars

\* ------------------------------------- the advancing operations on their own
NextAdv ==
    \/ bump
    \/ \E n \in 0..MaxArg : bump_n(n)
    \/ \E b \in EatBytes : eat(b)
    \/ \E s \in EatStrs : eat_str(s)
    \/ skip_blanks
    \/ skip_comment
    \/ read_name
    \/ read_number
    \/ scan_squote
    \/ \E a \in 0..MaxArg : (a <= pos /\ slice(a))
    \/ remaining

SpecAdv == Init /\ [][NextAdv]_vars

\* ============================== src/env_diff.rs: parse_null_separated_env
MaxData == 6     \* longest env dump handed to parse_null_separated_env

EQUALS == 61     \* '='

\* str::find(byte): Some(0-based position of the first occurrence) or -1.
find_byte(s, b) ==
    IF contains_byte(s, b)
    THEN (CHOOSE i \in 1..Len(s) : s[i] = b /\ \A j \in 1..(i - 1) : s[j] # b) - 1
    ELSE -1

\* str::split(sep): the pieces between separators, one more than separators.
RECURSIVE split(_, _)
split(s, sep) ==
    LET i == find_byte(s, sep)
    IN  IF i = -1 THEN <<s>>
        ELSE <<SubSeq(s, 1, i)>> \o split(SubSeq(s, i + 2, Len(s)), sep)

RECURSIVE trim_start_matches(_, _)
trim_start_matches(s, b) ==
    IF s # <<>> /\ s[1] = b THEN trim_start_matches(Tail(s), b) ELSE s

\* A map insert that keeps the value already stored under the key.
insert_keep_first(m, k, v) ==
    [x \in DOMAIN m \cup {k} |-> IF x \in DOMAIN m THEN m[x] ELSE v]

\* HashMap::insert
insert(m, k, v) ==
    [x \in DOMAIN m \cup {k} |-> IF x = k THEN v ELSE m[x]]

\* The body of the for loop: vars after one entry.
parse_entry(m, raw) ==
    LET entry  == trim_start_matches(raw, NL)
        eq_pos == find_byte(entry, EQUALS)
        key    == SubSeq(entry, 1, eq_pos)
        value  == SubSeq(entry, eq_pos + 2, Len(entry))
    IN  IF entry = <<>> THEN m
        ELSE IF eq_pos = -1 THEN m
        ELSE IF key # <<>> /\ \A i \in 1..Len(key) :
                                  is_ascii_alphanumeric(key[i]) \/ key[i] = UNDERSCORE
             THEN insert(m, key, value)
        ELSE m

RECURSIVE parse_entries(_, _)
parse_entries(m, entries) ==
    IF entries = <<>> THEN m
    ELSE parse_entries(parse_entry(m, Head(entries)), Tail(entries))

parse_null_separated_env(data) == parse_entries(<<>>, split(data, NUL))

\* Env dumps: NUL, newline, '=' and "A", at most MaxData bytes.
EnvDumps == SeqsUpTo({NUL, NL, EQUALS, 65}, MaxData)

InitParse ==
    /\ src = <<>>
    /\ pos = 0
    /\ last = NoCall
    /\ panicked = FALSE
    /\ memo = NoMemo
    /\ before = EmptySnapshot
    /\ after = EmptySnapshot
    /\ commands = <<>>
    /\ envpc = "idle"
    /\ fcall \in {[NoFCall EXCEPT !.input = s] : s \in EnvDumps}
    /\ run = NoRun

\* parse_null_separated_env(data)
parse_env ==
    /\ fcall.fn = "none"
    /\ fcall' = [fcall EXCEPT !.fn = "parse_null_separated_env",
                              !.output = parse_null_separated_env(fcall.input)]
    /\ UNCHANGED <<lexVars, envVars, run>>

NextParse == parse_env

SpecParse == InitParse /\ [][NextParse]_vars

\* ===================================== src/passthrough.rs: diff_and_print_env
MaxChunks == 4   \* most chunks in one captured stdout

\* "__REEF_ENV_MARKER_5f3a__"
ENV_MARKER ==
    <<95, 95, 82, 69, 69, 70, 95, 69, 78, 86, 95, 77,
      65, 82, 75, 69, 82, 95, 53, 102, 51, 97, 95, 95>>

\* "__REEF_CWD_MARKER_5f3a__"
CWD_MARKER ==
    <<95, 95, 82, 69, 69, 70, 95, 67, 87, 68, 95, 77,
      65, 82, 75, 69, 82, 95, 53, 102, 51, 97, 95, 95>>

\* String::from_utf8_lossy on one- and two-byte sequences, byte i of raw: a
\* well-formed character is copied (its second byte with its first), any
\* other byte becomes U+FFFD (EF BF BD).
lossy_at(raw, i) ==
    IF raw[i] < 128 THEN <<raw[i]>>
    ELSE IF raw[i] \in 194..223 /\ i < Len(raw) /\ raw[i + 1] \in 128..191
         THEN <<raw[i], raw[i + 1]>>
    ELSE IF raw[i] \in 128..191 /\ i > 1 /\ raw[i - 1] \in 194..223 THEN <<>>
    ELSE <<239, 191, 189>>

\* The bytes lo..hi of raw converted, taken by halves.
RECURSIVE lossy_range(_, _, _)
lossy_range(raw, lo, hi) ==
    IF lo > hi THEN <<>>
    ELSE IF lo = hi THEN lossy_at(raw, lo)
    ELSE lossy_range(raw, lo, (lo + hi) \div 2) \o lossy_range(raw, ((lo + hi) \div 2) + 1, hi)

from_utf8_lossy(raw) == lossy_range(raw, 1, Len(raw))

\* str::find(&str): Some(0-based position of the first occurrence) or -1.
find_str(s, pat) ==
    LET at(p) == \A i \in 1..Len(pat) : s[p + i] = pat[i]
        P     == {p \in 0..(Len(s) - Len(pat)) : at(p)}
    IN  IF P = {} THEN -1 ELSE CHOOSE p \in P : \A q \in P : p <= q

\* char::is_whitespace on ASCII.
is_whitespace(b) == b \in 9..13 \/ b = SPACE

RECURSIVE trim_end(_)
trim_end(s) ==
    IF s # <<>> /\ is_whitespace(s[Len(s)]) THEN trim_end(SubSeq(s, 1, Len(s) - 1)) ELSE s

RECURSIVE trim_start(_)
trim_start(s) ==
    IF s # <<>> /\ is_whitespace(s[1]) THEN trim_start(Tail(s)) ELSE s

\* str::trim
trim(s) == trim_end(trim_start(s))

\* buf: every command followed by '\n'.
RECURSIVE print_buf(_)
print_buf(cmds) ==
    IF cmds = <<>> THEN <<>> ELSE Head(cmds) \o <<NL>> \o print_buf(Tail(cmds))

NoSections ==
    [panicked |-> FALSE, found |-> FALSE, env_section |-> <<>>, cwd_section |-> <<>>, printed |-> <<>>]

\* Pieces a captured stdout is made of: the two markers, the CWD marker
\* without its first two bytes (it overlaps the end of the ENV marker),
\* "\nA=v\0", "\n/t\n" and a lone continuation byte.
Chunks ==
    { ENV_MARKER, CWD_MARKER, SubSeq(CWD_MARKER, 3, Len(CWD_MARKER)),
      <<NL, 65, EQUALS, 118, NUL>>, <<NL, 47, 116, NL>>, <<169>> }

RECURSIVE Concat(_)
Concat(ss) == IF ss = <<>> THEN <<>> ELSE Head(ss) \o Concat(Tail(ss))

Stdouts == {Concat(cs) : cs \in SeqsUpTo(Chunks, MaxChunks)}

\* Snapshots capture_current may have taken before the command ran.
BeforeSnapshots ==
    { EmptySnapshot, [vars |-> [k \in {<<65>>} |-> <<119>>], cwd |-> <<47, 116>>] }

InitDump ==
    /\ src = <<>>
    /\ pos = 0
    /\ last = NoCall
    /\ panicked = FALSE
    /\ memo = NoMemo
    /\ before \in BeforeSnapshots
    /\ after = EmptySnapshot
    /\ commands = <<>>
    /\ envpc = "idle"
    /\ fcall \in {[NoFCall EXCEPT !.input = s, !.output = NoSections] : s \in Stdouts}
    /\ run = NoRun

\* diff_and_print_env up to the two slices: whether a slice panics, whether
\* both markers were found, and the two sections.
dump_sections(raw_stdout) ==
    LET stdout    == from_utf8_lossy(raw_stdout)
        env_start == find_str(stdout, ENV_MARKER)
        cwd_start == find_str(stdout, CWD_MARKER)
    IN  IF env_start # -1 /\ cwd_start # -1
        THEN IF ~slice_ok(stdout, env_start + Len(ENV_MARKER), cwd_start)
                \/ ~slice_ok(stdout, cwd_start + Len(CWD_MARKER), Len(stdout))
             THEN [NoSections EXCEPT !.panicked = TRUE]
             ELSE [NoSections EXCEPT
                      !.found = TRUE,
                      !.env_section = slice_val(stdout, env_start + Len(ENV_MARKER), cwd_start),
                      !.cwd_section = trim(slice_val(stdout, cwd_start + Len(CWD_MARKER),
                                                     Len(stdout)))]
        ELSE NoSections

\* diff_and_print_env from the sections on: the after snapshot and the diff.
print_env_diff(d) ==
    LET a == [vars |-> parse_null_separated_env(d.env_section), cwd |-> d.cwd_section]
    IN  /\ after' = a
        /\ \E afterKeys \in KeyOrders(DOMAIN a.vars) :
           \E beforeKeys \in KeyOrders(DOMAIN before.vars) :
               commands' = diff_commands(before, a, afterKeys, beforeKeys)

\* diff_and_print_env(before, raw_stdout)
diff_and_print_env ==
    /\ fcall.fn = "none"
    /\ LET d == dump_sections(fcall.input)
       IN  IF d.panicked
           THEN /\ fcall' = [fcall EXCEPT !.fn = "diff_and_print_env", !.panicked = TRUE]
                /\ UNCHANGED <<after, commands>>
           ELSE IF d.found
           THEN /\ print_env_diff(d)
                /\ fcall' = [fcall EXCEPT !.fn = "diff_and_print_env",
                                          !.output = [d EXCEPT !.printed = print_buf(commands')]]
           ELSE /\ fcall' = [fcall EXCEPT !.fn = "diff_and_print_env"]
                /\ UNCHANGED <<after, commands>>
    /\ UNCHANGED <<before, envpc, run>>
    /\ UNCHANGED lexVars

NextDump == diff_and_print_env

SpecDump == InitDump /\ [][NextDump]_vars

\* ================================ src/passthrough.rs: bash_exec and the script
MaxStatus == 2   \* largest exit status of the user's command

Line(op, word, redirect) == [op |-> op, word |-> word, redirect |-> redirect]

\* A variant of build_script that never appends the final exit line.
build_script_no_exit(escaped_cmd, redirect, track_exit) ==
    <<Line("eval", escaped_cmd, redirect)>>
        \o (IF track_exit THEN <<Line("__reef_exit=$?", <<>>, "")>> ELSE <<>>)
        \o <<Line("echo", ENV_MARKER, ""), Line("env -0", <<>>, ""),
             Line("echo", CWD_MARKER, ""), Line("pwd", <<>>, "")>>

\* build_script: the script, line by line.
build_script(escaped_cmd, redirect, track_exit) ==
    <<Line("eval", escaped_cmd, redirect)>>
        \o (IF track_exit THEN <<Line("__reef_exit=$?", <<>>, "")>> ELSE <<>>)
        \o <<Line("echo", ENV_MARKER, ""), Line("env -0", <<>>, ""),
             Line("echo", CWD_MARKER, ""), Line("pwd", <<>>, "")>>
        \o (IF track_exit THEN <<Line("exit $__reef_exit", <<>>, "")>> ELSE <<>>)

\* What the user's command does when bash evals it: it ends with status n,
\* it makes the shell exit with status n, or the shell dies by a signal.
Outcomes ==
    [kind : {"status", "exit"}, n : 0..MaxStatus] \cup {[kind |-> "killed", n |-> 0]}

\* Exit statuses of the dump steps env -0 and pwd.
DumpStatuses == {0, 1}

Runs ==
    { [pc |-> "called", fn |-> f, command |-> <<105, SQUOTE>>, outcome |-> o,
       script |-> <<>>, ip |-> 0, status |-> 0, reef_exit |-> 0, trace |-> <<>>,
       stdout |-> <<>>, code |-> -1, result |-> -1] :
      f \in {"bash_exec", "bash_exec_env_diff"}, o \in Outcomes }

InitRun ==
    /\ src = <<>>
    /\ pos = 0
    /\ last = NoCall
    /\ panicked = FALSE
    /\ memo = NoMemo
    /\ before \in BeforeSnapshots
    /\ after = EmptySnapshot
    /\ commands = <<>>
    /\ envpc = "idle"
    /\ fcall = NoFCall
    /\ run \in Runs

\* Command::new("bash")...output() is Err: eprintln, return 1.
spawn_fails ==
    /\ run.pc = "called"
    /\ run' = [run EXCEPT !.pc = "returned", !.result = 1]
    /\ UNCHANGED <<lexVars, envVars, fcall>>

\* The script is built and bash is started on it.
spawn ==
    /\ run.pc = "called"
    /\ run' = [run EXCEPT
                  !.pc = "running",
                  !.ip = 1,
                  !.script = IF run.fn = "bash_exec"
                             THEN build_script(shell_escape_for_bash(run.command), " >&2", TRUE)
                             ELSE build_script(shell_escape_for_bash(run.command),
                                               " >/dev/null 2>&1", FALSE)]
    /\ UNCHANGED <<lexVars, envVars, fcall>>

\* bash runs the next line of the script; past the last line it exits with
\* the status of the last command.
bash_step ==
    /\ run.pc = "running"
    /\ IF run.ip > Len(run.script)
       THEN run' = [run EXCEPT !.pc = "exited", !.code = run.status]
       ELSE LET line == run.script[run.ip]
                next == [run EXCEPT !.ip = run.ip + 1, !.trace = Append(run.trace, line.op)]
            IN  IF line.op = "eval"
                THEN IF run.outcome.kind = "status"
                     THEN run' = [next EXCEPT !.status = run.outcome.n]
                     ELSE IF run.outcome.kind = "exit"
                     THEN run' = [next EXCEPT !.pc = "exited", !.code = run.outcome.n]
                     ELSE run' = [next EXCEPT !.pc = "exited", !.code = -1]
                ELSE IF line.op = "__reef_exit=$?"
                THEN run' = [next EXCEPT !.reef_exit = run.status, !.status = 0]
                ELSE IF line.op = "echo"
                THEN run' = [next EXCEPT !.stdout = run.stdout \o line.word \o <<NL>>,
                                         !.status = 0]
                ELSE IF line.op = "env -0"
                THEN \E st \in DumpStatuses :
                        run' = [next EXCEPT
                                   !.stdout = IF st = 0
                                              THEN run.stdout \o <<65, EQUALS, 118, NUL>>
                                              ELSE run.stdout,
                                   !.status = st]
                ELSE IF line.op = "pwd"
                THEN \E st \in DumpStatuses :
                        run' = [next EXCEPT
                                   !.stdout = IF st = 0 THEN run.stdout \o <<47, 116, NL>>
                                              ELSE run.stdout,
                                   !.status = st]
                ELSE run' = [next EXCEPT !.pc = "exited", !.code = run.reef_exit]
    /\ UNCHANGED <<lexVars, envVars, fcall>>

\* After output(): diff_and_print_env, then the value returned.
\* code -1 is ExitStatus::code() = None.
bash_exec_returns ==
    /\ run.pc = "exited"
    /\ LET d == dump_sections(run.stdout)
           exit_code == IF run.code = -1 THEN 1 ELSE run.code
       IN  IF d.panicked
           THEN /\ run' = [run EXCEPT !.pc = "panicked"]
                /\ UNCHANGED <<after, commands>>
           ELSE /\ IF d.found THEN print_env_diff(d) ELSE UNCHANGED <<after, commands>>
                /\ run' = [run EXCEPT
                              !.pc = "returned",
                              !.result = IF run.fn = "bash_exec" THEN exit_code
                                         ELSE IF run.code = 0 THEN 0 ELSE exit_code]
    /\ UNCHANGED <<before, envpc, fcall>>
    /\ UNCHANGED lexVars

NextRun == spawn_fails \/ spawn \/ bash_step \/ bash_exec_returns

SpecRun == InitRun /\ [][NextRun]_vars

\* ================================================================ claims
\* What the claims say, stated over the buffer and the recorded call, not
\* through the operators above.
Occurs(s, p, w) == p + Len(w) <= Len(s) /\ \A i \in 1..Len(w) : s[p + i] = w[i]

MetaBytes == {32, 9, 10, 59, 38, 124, 40, 41, 60, 62, 0}

Blank(b) == b = 32 \/ b = 9

Letter(b) == b \in 65..90 \/ b \in 97..122

Digit(b) == b \in 48..57

\* The bytes of s from index a (0-based) up to, not including, index b.
Between(s, a, b) == [i \in 1..(b - a) |-> s[a + i]]

\* C1: eat(b) returns true and advances by one exactly when the cursor is
\* before the end of input and the byte there is b; eat_str(s) returns true and
\* advances by len(s) exactly when the bytes at the cursor are s; otherwise
\* (also at end of input, for every b) they return false and leave the cursor
\* alone; neither raises an error.
C1_EatExactMatch ==
    /\ last.op = "eat" =>
          LET match == last.pre < Len(src) /\ src[last.pre + 1] = last.arg[1]
          IN  /\ ~panicked
              /\ last.retB = match
              /\ pos = IF match THEN last.pre + 1 ELSE last.pre
    /\ last.op = "eat_str" =>
          LET match == Occurs(src, last.pre, last.arg)
          IN  /\ ~panicked
              /\ last.retB = match
              /\ pos = IF match THEN last.pre + Len(last.arg) ELSE last.pre

\* C2: peek() and peek_at(k) return the byte at cursor (cursor + k) when that
\* index is inside the input and 0 otherwise, and peek() returns 0 exactly
\* when is_eof() is true, the sentinel never being a byte of the input.
C2_SentinelUnambiguous ==
    /\ last.op = "peek" =>
          /\ last.retN = IF last.pre < Len(src) THEN src[last.pre + 1] ELSE 0
          /\ (last.retN = 0) <=> (last.pre >= Len(src))
    /\ last.op = "peek_at" =>
          LET i == last.pre + last.arg[1]
          IN  last.retN = IF i < Len(src) THEN src[i + 1] ELSE 0
    /\ last.op = "is_eof" => last.retB = (last.pre >= Len(src))

\* C3: at_keyword(kw) never moves the cursor and is true exactly when kw
\* occurs at the cursor and either kw is one metacharacter, or the byte after
\* kw is a metacharacter, or kw ends at the end of input; at_any_keyword is
\* true exactly when at_keyword is for some element.
KeywordMatches(s, p, kw) ==
    /\ Occurs(s, p, kw)
    /\ \/ Len(kw) = 1 /\ kw[1] \in MetaBytes
       \/ p + Len(kw) = Len(s)
       \/ p + Len(kw) < Len(s) /\ s[p + Len(kw) + 1] \in MetaBytes

C3_AtKeyword ==
    /\ last.op = "at_keyword" =>
          /\ pos = last.pre
          /\ ~panicked
          /\ last.retB = KeywordMatches(src, last.pre, last.arg)
    /\ last.op = "at_any_keyword" =>
          /\ pos = last.pre
          /\ ~panicked
          /\ last.retB = \E i \in 1..Len(last.arg) :
                              KeywordMatches(src, last.pre, last.arg[i])

\* A keyword that occurs at the cursor and is refused for want of a boundary.
C3_Witness ==
    /\ last.op = "at_keyword"
    /\ Len(last.arg) > 1
    /\ Occurs(src, last.pre, last.arg)
    /\ ~last.retB

\* C4: read_name and read_number consume the maximal matching run at the
\* cursor and return the input between the cursor before and after; when no
\* run starts at the cursor (also at end of input) they return the empty
\* slice and leave the cursor unmoved.
NameRun(s, a, b) ==
    /\ a <= b
    /\ b <= Len(s)
    /\ \A i \in (a + 1)..b : Letter(s[i]) \/ Digit(s[i]) \/ s[i] = 95
    /\ a < b => ~Digit(s[a + 1])
    /\ a = b => ~(a < Len(s) /\ (Letter(s[a + 1]) \/ s[a + 1] = 95))
    /\ a < b => ~(b < Len(s) /\ (Letter(s[b + 1]) \/ Digit(s[b + 1]) \/ s[b + 1] = 95))

NumberRun(s, a, b) ==
    /\ a <= b
    /\ b <= Len(s)
    /\ \A i \in (a + 1)..b : Digit(s[i])
    /\ ~(b < Len(s) /\ Digit(s[b + 1]))

StartsName(s, p) == p < Len(s) /\ (Letter(s[p + 1]) \/ s[p + 1] = 95)

StartsNumber(s, p) == p < Len(s) /\ Digit(s[p + 1])

C4_ReadRuns ==
    /\ last.op = "read_name" =>
          /\ ~panicked
          /\ ~StartsName(src, last.pre) => (pos = last.pre /\ last.retS = <<>>)
          /\ StartsName(src, last.pre) =>
                (NameRun(src, last.pre, pos)
                 /\ last.retS = Between(src, last.pre, pos))
    /\ last.op = "read_number" =>
          /\ ~panicked
          /\ ~StartsNumber(src, last.pre) => (pos = last.pre /\ last.retS = <<>>)
          /\ StartsNumber(src, last.pre) =>
                (NumberRun(src, last.pre, pos)
                 /\ last.retS = Between(src, last.pre, pos))

\* C5: scan_squote, called just after an opening single quote: when a quote
\* byte exists at or after the cursor it returns Ok with the bytes up to the
\* first one, uninterpreted, and leaves the cursor one past it; when none
\* exists it returns the error 'unterminated single quote' at byte offset
\* len(input).
AfterOpeningQuote(s, p) == p >= 1 /\ p <= Len(s) /\ s[p] = 39

QuoteAhead(s, p) == \E i \in (p + 1)..Len(s) : s[i] = 39

C5_ScanSquote ==
    (last.op = "scan_squote" /\ AfterOpeningQuote(src, last.pre)) =>
        /\ ~panicked
        /\ QuoteAhead(src, last.pre) =>
              /\ last.retB
              /\ pos >= last.pre + 1
              /\ pos <= Len(src)
              /\ src[pos] = 39
              /\ \A i \in (last.pre + 1)..(pos - 1) : src[i] # 39
              /\ last.retS = Between(src, last.pre, pos - 1)
        /\ ~QuoteAhead(src, last.pre) =>
              /\ ~last.retB
              /\ last.err = "unterminated single quote"
              /\ last.retN = Len(src)

\* A backslash right before the closing quote does not keep it open.
C5_Witness ==
    /\ last.op = "scan_squote"
    /\ AfterOpeningQuote(src, last.pre)
    /\ last.retB
    /\ last.retS = <<92>>

\* C6: skip_blanks moves the cursor over the maximal run of spaces and tabs
\* at the cursor and over nothing else; a newline is never skipped.
C6_SkipBlanks ==
    last.op = "skip_blanks" =>
        /\ ~panicked
        /\ pos >= last.pre
        /\ \A i \in (last.pre + 1)..pos : i <= Len(src) /\ Blank(src[i])
        /\ pos >= Len(src) \/ ~Blank(src[pos + 1])

\* Blanks were skipped and the cursor stopped at a newline.
C6_Witness ==
    /\ last.op = "skip_blanks"
    /\ pos > last.pre
    /\ pos < Len(src)
    /\ src[pos + 1] = 10

\* C7: skip_comment, at a '#', moves the cursor to the first newline at or
\* after it (left unconsumed) or to the end of input; elsewhere (also at end
\* of input) it leaves the cursor unchanged.
C7_SkipComment ==
    last.op = "skip_comment" =>
        /\ ~panicked
        /\ IF last.pre < Len(src) /\ src[last.pre + 1] = 35
           THEN /\ pos > last.pre
                /\ pos <= Len(src)
                /\ \A i \in (last.pre + 1)..pos : src[i] # 10
                /\ pos = Len(src) \/ src[pos + 1] = 10
           ELSE pos = last.pre

\* A comment was skipped up to a newline that is still to be read.
C7_Witness ==
    /\ last.op = "skip_comment"
    /\ pos > last.pre
    /\ pos < Len(src)
    /\ src[pos + 1] = 10

\* C9: diff(before, after) is exactly the delta, in this order: one
\* 'set -gx NAME ...' for each non-deny-listed variable of after that is new
\* or has another value (none for an unchanged one); then one 'set -e NAME'
\* for each non-deny-listed variable of before absent from after; then, last,
\* one 'cd DIR' if and only if after.cwd is non-empty and differs from
\* before.cwd.  So diff(s, s) is empty.
DenyNames == {SKIP_VARS[i] : i \in 1..Len(SKIP_VARS)}

HasPrefix(c, w) == Len(c) >= Len(w) /\ \A i \in 1..Len(w) : c[i] = w[i]

\* "set -gx ", "set -e " and "cd ", byte by byte.
SetsVar(c, name) == HasPrefix(c, <<115, 101, 116, 32, 45, 103, 120, 32>> \o name \o <<32>>)

UnsetsVar(c, name) == c = <<115, 101, 116, 32, 45, 101, 32>> \o name

ChangesDir(c) == HasPrefix(c, <<99, 100, 32>>)

ChangedNames ==
    {k \in DOMAIN after.vars :
        /\ k \notin DenyNames
        /\ k \notin DOMAIN before.vars \/ before.vars[k] # after.vars[k]}

RemovedNames ==
    {k \in DOMAIN before.vars : k \notin DenyNames /\ k \notin DOMAIN after.vars}

DirChanged == after.cwd # <<>> /\ after.cwd # before.cwd

C9_DiffIsDelta ==
    envpc = "done" =>
        LET n1 == Cardinality(ChangedNames)
            n2 == Cardinality(RemovedNames)
            n3 == IF DirChanged THEN 1 ELSE 0
        IN  /\ Len(commands) = n1 + n2 + n3
            /\ \A k \in ChangedNames :
                  Cardinality({i \in 1..n1 : SetsVar(commands[i], k)}) = 1
            /\ \A k \in RemovedNames :
                  Cardinality({i \in (n1 + 1)..(n1 + n2) : UnsetsVar(commands[i], k)}) = 1
            /\ DirChanged => ChangesDir(commands[n1 + n2 + 1])
            /\ before = after => commands = <<>>

\* A diff with a changed value, a removed variable and a new directory.
C9_Witness ==
    /\ envpc = "done"
    /\ \E k \in ChangedNames : k \in DOMAIN before.vars
    /\ RemovedNames # {}
    /\ DirChanged
    /\ Len(commands) = 3

\* C10: should_skip_var(name) is true exactly when name is an element of
\* SKIP_VARS, the list being strictly ascending in byte order; and no command
\* of diff sets or unsets a variable of SKIP_VARS, be it added, changed or
\* removed.
RECURSIVE ByteLess(_, _)
ByteLess(a, b) ==
    IF b = <<>> THEN FALSE
    ELSE IF a = <<>> THEN TRUE
    ELSE IF a[1] # b[1] THEN a[1] < b[1]
    ELSE ByteLess(Tail(a), Tail(b))

\* The names should_skip_var is asked about: the deny list, every entry cut
\* by its last byte, every entry with "X" appended, and the names of EnvNames.
ProbeNames ==
    DenyNames
        \cup {SubSeq(SKIP_VARS[i], 1, Len(SKIP_VARS[i]) - 1) : i \in 1..Len(SKIP_VARS)}
        \cup {SKIP_VARS[i] \o <<88>> : i \in 1..Len(SKIP_VARS)}
        \cup EnvNames

SkipVarsAscending ==
    \A i \in 1..(Len(SKIP_VARS) - 1) : ByteLess(SKIP_VARS[i], SKIP_VARS[i + 1])

SkipSearchExact == \A n \in ProbeNames : should_skip_var(n) <=> n \in DenyNames

C10_DenyListFiltered ==
    /\ SkipVarsAscending
    /\ SkipSearchExact
    /\ envpc = "done" =>
          \A i \in 1..Len(commands) : \A k \in DenyNames :
              ~SetsVar(commands[i], k) /\ ~UnsetsVar(commands[i], k)

\* Deny-listed variables were added, changed and removed, and a variable
\* that is not deny-listed was set.
C10_Witness ==
    /\ envpc = "done"
    /\ \E k \in DenyNames : k \in DOMAIN after.vars /\ k \notin DOMAIN before.vars
    /\ \E k \in DenyNames : k \in DOMAIN before.vars /\ k \notin DOMAIN after.vars
    /\ commands # <<>>

\* C8: backtracking is exact.  After set_pos(p) the cursor is p, and an
\* operation run from a saved cursor p returns the same result, leaves the
\* same cursor and fails the same way whenever it is run from p again,
\* whatever ran in between; the input buffer never changes.
SameAsFirstRun ==
    (/\ memo.has
     /\ last.pre = memo.saved
     /\ last.op = memo.run.op
     /\ last.arg = memo.run.arg)
        => (last = memo.run /\ pos = memo.post /\ panicked = memo.panicked)

SetPosExact == last.op = "set_pos" => pos = last.arg[1]

C8_BacktrackExact ==
    /\ [](SetPosExact /\ SameAsFirstRun)
    /\ [][src' = src]_vars

\* The caller went back to the saved cursor and ran the noted call again,
\* a call that moves the cursor.
C8_Witness ==
    /\ memo.has
    /\ memo.restored
    /\ last = memo.run
    /\ last.op \in {"read_name", "scan_squote", "eat", "skip_comment"}
    /\ pos # memo.saved

\* C11: every value diff emits is shell-quoted: in every 'set -gx NAME value'
\* and 'cd dir', a value with a byte outside the safe set (ASCII letters and
\* digits and / . - _ : ~ + ,) stands in single quotes, each inner quote
\* written '\'' , so no unquoted space or metacharacter reaches the command.
SafeByte(b) == Letter(b) \/ Digit(b) \/ b \in {47, 46, 45, 95, 58, 126, 43, 44}

RECURSIVE QuotedBody(_)
QuotedBody(s) ==
    IF s = <<>> THEN TRUE
    ELSE IF s[1] = 39
         THEN Len(s) >= 4 /\ s[2] = 92 /\ s[3] = 39 /\ s[4] = 39
              /\ QuotedBody(SubSeq(s, 5, Len(s)))
         ELSE QuotedBody(Tail(s))

\* The text e is a safe word, or one single-quoted word.
WellQuoted(e) ==
    \/ \A i \in 1..Len(e) : SafeByte(e[i])
    \/ Len(e) >= 2 /\ e[1] = 39 /\ e[Len(e)] = 39 /\ QuotedBody(SubSeq(e, 2, Len(e) - 1))

\* What follows the first n bytes of c.
TextAfter(c, n) == SubSeq(c, n + 1, Len(c))

C11_ValuesQuoted ==
    envpc = "done" =>
        \A i \in 1..Len(commands) :
            /\ \A k \in DOMAIN after.vars :
                  SetsVar(commands[i], k) => WellQuoted(TextAfter(commands[i], 9 + Len(k)))
            /\ ChangesDir(commands[i]) => WellQuoted(TextAfter(commands[i], 3))

\* C14: for a new or changed variable whose name ends with 'PATH' and whose
\* value contains ':', diff emits 'set -gx NAME ' and the value's
\* ':'-separated components in order, joined by single spaces; for every
\* other variable it emits the one shell_escape'd value.
RECURSIVE Components(_)
Components(v) ==
    IF \A i \in 1..Len(v) : v[i] # 58 THEN <<v>>
    ELSE LET c == CHOOSE i \in 1..Len(v) : v[i] = 58 /\ \A j \in 1..(i - 1) : v[j] # 58
         IN  <<SubSeq(v, 1, c - 1)>> \o Components(SubSeq(v, c + 1, Len(v)))

RECURSIVE JoinWithSpaces(_)
JoinWithSpaces(parts) ==
    IF Len(parts) = 0 THEN <<>>
    ELSE IF Len(parts) = 1 THEN parts[1]
    ELSE parts[1] \o <<32>> \o JoinWithSpaces(Tail(parts))

PathLike(k, v) ==
    /\ Len(k) >= 4
    /\ SubSeq(k, Len(k) - 3, Len(k)) = <<80, 65, 84, 72>>
    /\ \E i \in 1..Len(v) : v[i] = 58

EmittedValue(k) ==
    IF PathLike(k, after.vars[k]) THEN JoinWithSpaces(Components(after.vars[k]))
    ELSE shell_escape(after.vars[k])

C14_PathSplit ==
    envpc = "done" =>
        \A k \in ChangedNames :
            \E i \in 1..Len(commands) :
                commands[i] = <<115, 101, 116, 32, 45, 103, 120, 32>> \o k \o <<32>>
                                  \o EmittedValue(k)

\* PATH got a value with ':' and another variable got the same value.
C14_Witness ==
    /\ envpc = "done"
    /\ \E k \in ChangedNames : PathLike(k, after.vars[k])
    /\ \E k \in ChangedNames :
          ~PathLike(k, after.vars[k]) /\ \E i \in 1..Len(after.vars[k]) : after.vars[k][i] = 58

\* C12: shell_escape_for_bash(s) is a single-quoted bash word that denotes
\* exactly s: a quote, the bytes of s unchanged but for each single quote
\* replaced by the four bytes '\'' , a quote; decoding it by bash's
\* single-quote rules gives back the bytes of s, non-ASCII text included.
RECURSIVE QuoteReplaced(_)
QuoteReplaced(s) ==
    IF s = <<>> THEN <<>>
    ELSE (IF s[1] = 39 THEN <<39, 92, 39, 39>> ELSE <<s[1]>>) \o QuoteReplaced(Tail(s))

\* The bytes a bash word denotes: inside single quotes every byte is itself
\* up to the closing quote; outside, a backslash makes the next byte literal.
\* <<-1>> is appended when the word ends inside a quote or after a backslash.
RECURSIVE BashDecode(_, _)
BashDecode(w, quoted) ==
    IF w = <<>> THEN (IF quoted THEN <<-1>> ELSE <<>>)
    ELSE IF quoted
         THEN IF w[1] = 39 THEN BashDecode(Tail(w), FALSE)
              ELSE <<w[1]>> \o BashDecode(Tail(w), TRUE)
    ELSE IF w[1] = 39 THEN BashDecode(Tail(w), TRUE)
    ELSE IF w[1] = 92
         THEN IF Len(w) >= 2 THEN <<w[2]>> \o BashDecode(SubSeq(w, 3, Len(w)), FALSE)
              ELSE <<-1>>
    ELSE <<w[1]>> \o BashDecode(Tail(w), FALSE)

C12_BashQuoteRoundTrip ==
    fcall.fn = "shell_escape_for_bash" =>
        /\ fcall.output = <<39>> \o QuoteReplaced(fcall.input) \o <<39>>
        /\ BashDecode(fcall.output, FALSE) = fcall.input

\* The same statement for command texts of ASCII bytes only.
C12_AsciiRoundTrip ==
    (fcall.fn = "shell_escape_for_bash" /\ \A i \in 1..Len(fcall.input) : fcall.input[i] < 128)
        => /\ fcall.output = <<39>> \o QuoteReplaced(fcall.input) \o <<39>>
           /\ BashDecode(fcall.output, FALSE) = fcall.input

\* C15: parse_null_separated_env(data) is exactly the map that holds, for
\* every NUL-separated entry which after its leading newlines has an '='
\* preceded by a non-empty name of ASCII letters, digits and '_', the name
\* and everything after that first '='; other entries are skipped and the
\* last entry of a name wins.
Cuts(d) == {0, Len(d) + 1} \cup {i \in 1..Len(d) : d[i] = 0}

\* Entries as pairs <<a, b>>: the text strictly between two neighbouring cuts.
EntrySpans(d) ==
    {sp \in Cuts(d) \X Cuts(d) :
        sp[1] < sp[2] /\ \A c \in Cuts(d) : ~(sp[1] < c /\ c < sp[2])}

\* First position of the entry that is not a leading newline (sp[2] if none).
BodyStart(d, sp) ==
    CHOOSE j \in (sp[1] + 1)..sp[2] :
        /\ \A i \in (sp[1] + 1)..(j - 1) : d[i] = 10
        /\ j < sp[2] => d[j] # 10

\* Position of the first '=' of the entry (0 if none).
FirstEq(d, sp) ==
    LET E == {i \in BodyStart(d, sp)..(sp[2] - 1) : d[i] = 61}
    IN  IF E = {} THEN 0 ELSE CHOOSE i \in E : \A j \in E : i <= j

NameByte(b) == Letter(b) \/ Digit(b) \/ b = 95

EntryName(d, sp) == SubSeq(d, BodyStart(d, sp), FirstEq(d, sp) - 1)

EntryValue(d, sp) == SubSeq(d, FirstEq(d, sp) + 1, sp[2] - 1)

Accepted(d, sp) ==
    /\ FirstEq(d, sp) # 0
    /\ EntryName(d, sp) # <<>>
    /\ \A i \in 1..Len(EntryName(d, sp)) : NameByte(EntryName(d, sp)[i])

AcceptedSpans(d) == {sp \in EntrySpans(d) : Accepted(d, sp)}

LastSpanOf(d, name) ==
    CHOOSE sp \in AcceptedSpans(d) :
        /\ EntryName(d, sp) = name
        /\ \A o \in AcceptedSpans(d) : EntryName(d, o) = name => o[1] <= sp[1]

C15_ParseNullSeparated ==
    fcall.fn = "parse_null_separated_env" =>
        LET d == fcall.input
        IN  /\ DOMAIN fcall.output = {EntryName(d, sp) : sp \in AcceptedSpans(d)}
            /\ \A name \in DOMAIN fcall.output :
                   fcall.output[name] = EntryValue(d, LastSpanOf(d, name))

\* "A=" then "A=A": the name occurs twice and the later value is kept.
C15_Witness ==
    /\ fcall.fn = "parse_null_separated_env"
    /\ fcall.input = <<65, 61, 0, 65, 61, 65>>
    /\ fcall.output[<<65>>] = <<65>>

\* "\nA==": leading newline stripped, the value keeps the further '='.
C15_WitnessValue ==
    /\ fcall.fn = "parse_null_separated_env"
    /\ fcall.input = <<10, 65, 61, 61>>
    /\ fcall.output[<<65>>] = <<61>>

\* C16: for every captured stdout diff_and_print_env completes without
\* failure, whatever the order of the markers and wherever marker text also
\* occurs; when both markers occur the variable dump is the text after the ENV
\* marker and before the CWD marker and the working directory is the trimmed
\* text after the CWD marker; when a marker is missing nothing is printed.
EnvMarkerText == <<95, 95, 82, 69, 69, 70, 95, 69, 78, 86, 95, 77,
                   65, 82, 75, 69, 82, 95, 53, 102, 51, 97, 95, 95>>

CwdMarkerText == <<95, 95, 82, 69, 69, 70, 95, 67, 87, 68, 95, 77,
                   65, 82, 75, 69, 82, 95, 53, 102, 51, 97, 95, 95>>

Contains(s, w) == \E p \in 0..Len(s) : Occurs(s, p, w)

FirstAt(s, w) == CHOOSE p \in 0..Len(s) : Occurs(s, p, w) /\ \A q \in 0..(p - 1) : ~Occurs(s, q, w)

White(b) == b \in {9, 10, 11, 12, 13, 32}

\* t is s without its leading and trailing white space.
TrimmedOf(t, s) ==
    \E a \in 0..Len(s) :
        /\ t = SubSeq(s, a + 1, a + Len(t))
        /\ a + Len(t) <= Len(s)
        /\ \A i \in 1..a : White(s[i])
        /\ \A i \in (a + Len(t) + 1)..Len(s) : White(s[i])
        /\ t # <<>> => ~White(t[1]) /\ ~White(t[Len(t)])

CapturedText == from_utf8_lossy(fcall.input)

C16_MarkersSeparateDump ==
    fcall.fn = "diff_and_print_env" =>
        /\ ~fcall.panicked
        /\ (Contains(CapturedText, EnvMarkerText) /\ Contains(CapturedText, CwdMarkerText)) =>
              /\ fcall.output.found
              /\ fcall.output.env_section =
                     SubSeq(CapturedText, FirstAt(CapturedText, EnvMarkerText) + 25,
                            FirstAt(CapturedText, CwdMarkerText))
              /\ TrimmedOf(fcall.output.cwd_section,
                           SubSeq(CapturedText, FirstAt(CapturedText, CwdMarkerText) + 25,
                                  Len(CapturedText)))
        /\ ~(Contains(CapturedText, EnvMarkerText) /\ Contains(CapturedText, CwdMarkerText)) =>
              fcall.output.printed = <<>>

\* The call fails exactly when both markers occur and the first CWD marker
\* starts before the end of the first ENV marker.
C16_FailsOnlyOutOfOrder ==
    fcall.fn = "diff_and_print_env" =>
        (fcall.panicked <=>
            /\ Contains(CapturedText, EnvMarkerText)
            /\ Contains(CapturedText, CwdMarkerText)
            /\ FirstAt(CapturedText, CwdMarkerText) < FirstAt(CapturedText, EnvMarkerText) + 24)

\* All of C16 but for completion: what is extracted when the call completes.
C16_SectionsWhenCompleted ==
    (fcall.fn = "diff_and_print_env" /\ ~fcall.panicked) =>
        /\ (Contains(CapturedText, EnvMarkerText) /\ Contains(CapturedText, CwdMarkerText)) =>
              /\ fcall.output.found
              /\ fcall.output.env_section =
                     SubSeq(CapturedText, FirstAt(CapturedText, EnvMarkerText) + 25,
                            FirstAt(CapturedText, CwdMarkerText))
              /\ TrimmedOf(fcall.output.cwd_section,
                           SubSeq(CapturedText, FirstAt(CapturedText, CwdMarkerText) + 25,
                                  Len(CapturedText)))
        /\ ~(Contains(CapturedText, EnvMarkerText) /\ Contains(CapturedText, CwdMarkerText)) =>
              fcall.output.printed = <<>>

\* C13: bash_exec returns the exit status of the user's command: the script
\* runs the command first, records its status, then emits the ENV marker, the
\* env dump, the CWD marker and the directory in that order and exits with the
\* recorded status, whatever the status of the dump steps; when bash cannot be
\* started the result is 1.
Started == run.script # <<>>

CommandEnded == run.outcome.kind \in {"status", "exit"}

StepsInOrder ==
    <<"eval", "__reef_exit=$?", "echo", "env -0", "echo", "pwd", "exit $__reef_exit">>

MarkersInOrder ==
    /\ Occurs(run.stdout, 0, EnvMarkerText)
    /\ \E p \in 24..Len(run.stdout) :
          /\ Occurs(run.stdout, p, CwdMarkerText)
          /\ \A q \in 0..(p - 1) : ~Occurs(run.stdout, q, CwdMarkerText)

C13_BashExecStatus ==
    run.fn = "bash_exec" =>
        /\ run.pc \in {"returned", "exited", "running", "called"}
        /\ (Len(run.trace) >= 2 /\ run.outcome.kind = "status") =>
               /\ run.reef_exit = run.outcome.n
               /\ run.trace = SubSeq(StepsInOrder, 1, Len(run.trace))
        /\ run.pc = "returned" =>
               /\ (Started /\ CommandEnded) => run.result = run.outcome.n
               /\ (Started /\ run.outcome.kind = "status") =>
                      /\ run.trace = StepsInOrder
                      /\ MarkersInOrder
               /\ ~Started => run.result = 1

\* The command ends with status n > 0, a dump step fails, and n is returned.
C13_Witness ==
    /\ run.fn = "bash_exec"
    /\ run.pc = "returned"
    /\ run.outcome = [kind |-> "status", n |-> MaxStatus]
    /\ run.status = 1
    /\ run.result = MaxStatus

\* C18: bash_exec_env_diff returns 0 when the user's command succeeds and the
\* command's non-zero status when it fails (1 when there is no status code or
\* bash cannot be started): the status of the command, not of the dump steps.
C18_EnvDiffStatus ==
    (run.fn = "bash_exec_env_diff" /\ run.pc = "returned") =>
        /\ (Started /\ CommandEnded) => run.result = run.outcome.n
        /\ (~Started \/ run.outcome.kind = "killed") => run.result = 1

\* What bash_exec_env_diff does return: the status of pwd, the last line of
\* the script, unless the command itself made the shell exit.
C18_ReturnsLastStepStatus ==
    (run.fn = "bash_exec_env_diff" /\ run.pc = "returned" /\ Started
        /\ run.outcome.kind = "status") => run.result = run.status

\* C17: from Lexer::new(input), after any sequence of bump, bump_n, eat,
\* eat_str, skip_blanks, skip_comment, read_name, read_number and scan_squote
\* the cursor satisfies 0 <= pos <= len(input), and slice(start) with
\* start <= pos and remaining() are valid views that never fail.
C17_CursorBound ==
    /\ 0 <= pos
    /\ pos <= Len(src)
    /\ last.op \in {"slice", "remaining"} => last.err # "panic"

\* The lower bound, which does hold.
C17_CursorNonNegative == 0 <= pos

\* remaining() and slice(start), start <= pos, fail only with the cursor past
\* the end or inside a character.
C17_ViewsFailOnlyOffBoundary ==
    (last.op \in {"slice", "remaining"} /\ last.err = "panic") =>
        \/ pos > Len(src)
        \/ ~is_char_boundary(src, pos)
        \/ last.op = "slice" /\ ~is_char_boundary(src, last.arg[1])

====
